---- MODULE Spec2Model ----
(***************************************************************************)
(* The command-dispatch / status-polling controller of HomeView.vue        *)
(* (src/unnamed/part_001) with the command panel that calls it             *)
(* (second block of src/frontend/src/components/PageFooter.vue).           *)
(*                                                                         *)
(* JavaScript runs each handler to its first await, and each continuation  *)
(* after the last await, without interruption.  handleSendCommand and      *)
(* pollRobotStatus each await fetch() and then response.json() and touch   *)
(* no state between the two, so each is two steps: the synchronous part    *)
(* that issues the request, and the handling of the response.              *)
(*                                                                         *)
(* A string is a sequence of tokens; " ", "\t" and "\n" are the whitespace *)
(* tokens.  A value that may be absent (null, undefined, a missing field)  *)
(* is << >> when absent and <<v>> when present.  User-visible texts are    *)
(* given in English; the source has them in Chinese.                       *)
(***************************************************************************)
EXTENDS Integers, Sequences, FiniteSets, TLC

\* ------------------------------------------------------------------ bounds
\* requests sent in one run: the status query of onMounted, the command
\* requests of the operator and the status queries of the interval ticks
MaxRequests == 3

\* presses of the stop button in the run that fills the log: two log entries
\* each, above the welcome entry
MaxPresses == 51

\* ------------------------------------------------------- program constants
\* startPolling(interval = 1000)
DefaultInterval == 1000
\* logs.slice(0, 100) of the status panel
LogLimit == 100

None == << >>
Some(x) == <<x>>

VARIABLES
  robotState,       \* the robotState ref: connected, isLoading, errorMessage, data
  logMessages,      \* the logMessages ref, newest first
  isLoading,        \* the isLoading ref handed to the command panel
  pollingInterval,  \* the timer handle; 0 is undefined
  timers,           \* the interval timers that are alive in the event loop
  nextTimer,        \* the id the next setInterval returns
  toast,            \* the notification shown last
  cmdInFlight,      \* command requests sent and not yet answered
  statusInFlight,   \* status queries sent and not yet answered
  nCommands,        \* fetch('/api/command') calls made so far
  nStatus,          \* fetch('/api/status') calls made so far
  phase,            \* "setup", "mounted" or "unmounted"
  budget,           \* the number of requests the run may send
  last              \* the handler step that ran last, with its input

vars == <<robotState, logMessages, isLoading, pollingInterval, timers, nextTimer,
          toast, cmdInFlight, statusInFlight, nCommands, nStatus, phase, budget,
          last>>

\* ------------------------------------------------------------------- texts
TimeTag == "[time] "
IsWs(c) == c \in {" ", "\t", "\n"}

RECURSIVE TrimStart(_)
TrimStart(s) ==
  IF s = << >> THEN << >>
  ELSE IF IsWs(Head(s)) THEN TrimStart(Tail(s)) ELSE s

RECURSIVE TrimEnd(_)
TrimEnd(s) ==
  IF s = << >> THEN << >>
  ELSE IF IsWs(s[Len(s)]) THEN TrimEnd(SubSeq(s, 1, Len(s) - 1)) ELSE s

\* String.prototype.trim
Trim(s) == TrimEnd(TrimStart(s))

\* String.prototype.split('\n'): the lines of s, at least one
RECURSIVE Split(_)
Split(s) ==
  IF \A i \in 1..Len(s) : s[i] # "\n" THEN <<s>>
  ELSE LET i == CHOOSE k \in 1..Len(s) :
                  s[k] = "\n" /\ \A j \in 1..(k - 1) : s[j] # "\n"
       IN <<SubSeq(s, 1, i - 1)>> \o Split(SubSeq(s, i + 1, Len(s)))

\* the tokens of s as one string
RECURSIVE Text(_)
Text(s) == IF s = << >> THEN "" ELSE Head(s) \o Text(Tail(s))

\* lines.map(c => `- ${c.trim()}`).join('\n')
RECURSIVE JoinLines(_)
JoinLines(ls) ==
  IF ls = << >> THEN ""
  ELSE ("- " \o Text(Trim(Head(ls))))
       \o (IF Len(ls) > 1 THEN "\n" \o JoinLines(Tail(ls)) ELSE "")

\* the message of the batch log entry of handleSendCommand
BatchMsg(command) == "sending command batch:\n\"" \o JoinLines(Split(command)) \o "\""
\* the message of one detailed_results entry
ResultMsg(res) ==
  "> \"" \o res.command \o "\": " \o res.message \o " (" \o res.status \o ")"
DispatchErrorMsg(e) == "error: " \o e
PollErrorMsg(e) == "status polling request failed: " \o e
StartMsg(interval) == "status polling started, interval: " \o ToString(interval) \o "ms"
CompletionMsg == "robot motion finished, status polling stopped automatically."
WelcomeMsg == "welcome to the robot control system."
HttpErrorText(code) == "server response error (HTTP " \o ToString(code) \o ")"

\* a || b on strings: the empty string is falsy
OrElse(a, b) == IF a = "" THEN b ELSE a
\* a || b where a may be absent
OptOrElse(a, b) == IF a = None THEN b ELSE OrElse(a[1], b)

\* --------------------------------------------------------- robot snapshots
\* gv0_value: number | string | null
Num(n) == [type |-> "number", num |-> n, str |-> ""]
Str(t) == [type |-> "string", num |-> 0, str |-> t]

\* the data of the initial robotState
ConnectingData ==
  [mode |-> "connecting...", run_status |-> "connecting...",
   alarm_status |-> "connecting...", alarm_code |-> None, gv0_value |-> Str("N/A")]
\* the data both catch blocks write
FailureData ==
  [mode |-> "failed", run_status |-> "failed",
   alarm_status |-> "failed", alarm_code |-> None, gv0_value |-> Str("N/A")]

\* the run_status the stop condition looks for
StoppedText == "stopped"

\* snapshots the backend reports
Running ==
  [mode |-> "auto", run_status |-> "running", alarm_status |-> "normal",
   alarm_code |-> Some(0), gv0_value |-> Num(0)]
Stopped ==
  [mode |-> "auto", run_status |-> StoppedText, alarm_status |-> "normal",
   alarm_code |-> Some(0), gv0_value |-> Num(0)]
StoppedAlarm ==
  [mode |-> "auto", run_status |-> StoppedText, alarm_status |-> "alarm",
   alarm_code |-> Some(3), gv0_value |-> Num(0)]
Snapshots == {Running, Stopped, StoppedAlarm}

\* ----------------------------------------------------------- the responses
\* What a fetch and the response.json() after it can give:
\*   net = "reject"   fetch() rejects with an error whose message is error
\*   net = "badjson"  response.json() rejects with an error whose message is error
\*   net = "json"     a body was parsed; ok is response.ok, code response.status
Reply(net, error, ok, code, status, message, motion, snapshot, results) ==
  [net |-> net, error |-> error, ok |-> ok, code |-> code, status |-> status,
   message |-> message, motion_started |-> motion, robot_status |-> snapshot,
   detailed_results |-> results]

Rejected(e) == Reply("reject", e, FALSE, 0, "", None, FALSE, None, None)
BadJson == Reply("badjson", "Unexpected token < in JSON", FALSE, 0, "", None, FALSE, None, None)
HttpError(msg) == Reply("json", "", FALSE, 500, "error", msg, FALSE, None, None)
Body(status, msg, motion, snapshot, results) ==
  Reply("json", "", TRUE, 200, status, msg, motion, snapshot, results)

\* replies without a usable body: the network fails, the body is not JSON,
\* the server answers 500 with and without a message
NetworkError == Rejected("Failed to fetch")
Http500 == HttpError(None)
Http500Msg == HttpError(Some("backend down"))

\* entries of detailed_results
R1 == [command |-> "MOVE J1 30", status |-> "success", message |-> "ok"]
R2 == [command |-> "SET_SPEED 50", status |-> "error", message |-> "not in auto mode"]
\* the detailed_results sent with a body: every length from none to two occurs
\* with and without a snapshot, with and without motion
ResultsOf(st, mo, rs) ==
  IF st = "success"
  THEN IF mo THEN (IF rs = None THEN Some(<<R1>>) ELSE Some(<<R2, R1>>))
             ELSE (IF rs = None THEN Some(<<R2, R1>>) ELSE Some(<< >>))
  ELSE IF mo THEN (IF rs = None THEN Some(<< >>) ELSE None)
             ELSE (IF rs = None THEN None ELSE Some(<<R2>>))

\* bodies whose status is neither "success" nor "error"
BusyBodies ==
  {Body("busy", None, FALSE, None, None),
   Body("busy", Some("backend message"), TRUE, Some(Running), Some(<<R1>>))}

CommandReplies ==
  {NetworkError, BadJson, Http500Msg} \cup BusyBodies \cup
  {Body(st, Some("backend message"), mo, rs, ResultsOf(st, mo, rs)) :
     st \in {"success", "error"}, mo \in BOOLEAN, rs \in {None, Some(Running)}}

StatusReplies ==
  {NetworkError, Http500} \cup
  {Body("success", None, FALSE, Some(s), None) : s \in Snapshots} \cup
  {Body("success", None, FALSE, None, None),
   Body("error", Some("robot offline"), FALSE, None, None)}

\* what the operator can type, and the preset buttons
Texts ==
  {<< >>, <<" ", "\n">>,
   <<" ", "MOVE J1 30", "\n", " ", "SET_SPEED 50", " ">>}
Presets == {<<"STOP_MOVE">>}

\* ------------------------------------------------------- the program state
\* The variables the handlers read and write, as one record, so that the
\* functions of the script are operators from state to state.
Cur ==
  [robotState |-> robotState, logMessages |-> logMessages, isLoading |-> isLoading,
   pollingInterval |-> pollingInterval, timers |-> timers, nextTimer |-> nextTimer,
   toast |-> toast, cmdInFlight |-> cmdInFlight, statusInFlight |-> statusInFlight,
   nCommands |-> nCommands, nStatus |-> nStatus]

Becomes(m) ==
  /\ robotState' = m.robotState
  /\ logMessages' = m.logMessages
  /\ isLoading' = m.isLoading
  /\ pollingInterval' = m.pollingInterval
  /\ timers' = m.timers
  /\ nextTimer' = m.nextTimer
  /\ toast' = m.toast
  /\ cmdInFlight' = m.cmdInFlight
  /\ statusInFlight' = m.statusInFlight
  /\ nCommands' = m.nCommands
  /\ nStatus' = m.nStatus
  /\ budget' = budget

NoReply == Reply("none", "", FALSE, 0, "", None, FALSE, None, None)
\* The record of the handler step that ran last: which one, the command or the
\* reply it was given, the request it sent or answered, the timer whose tick
\* sent the answered status query, and the timers alive when the step began.
Event(kind, command, req, session, reply) ==
  [kind |-> kind, command |-> command, req |-> req, session |-> session,
   reply |-> reply, alive |-> timers]

\* ------------------------------------------------------------- the helpers
\* addLog with push instead of unshift
addLog_push(m, message) ==
  [m EXCEPT !.logMessages = @ \o <<TimeTag \o message>>]

\* addLog: unshift of the time-stamped message
addLog(m, message) ==
  [m EXCEPT !.logMessages = <<TimeTag \o message>> \o @]

\* clearInterval(id)
clearInterval(m, id) == [m EXCEPT !.timers = @ \ {id}]

\* setInterval(pollRobotStatus, interval): a new timer, whose id is returned
setInterval(m) == [m EXCEPT !.timers = @ \cup {m.nextTimer}, !.nextTimer = @ + 1]

\* stopPolling that reports the stop in the log whether or not a session is alive
stopPolling_alwaysLogs(m) ==
  addLog([clearInterval(m, m.pollingInterval) EXCEPT !.pollingInterval = 0],
         "status polling stopped.")

\* stopPolling that forgets the handle without clearing the timer
stopPolling_keepsTimer(m) == [m EXCEPT !.pollingInterval = 0]

stopPolling(m) ==
  IF m.pollingInterval # 0
  THEN [clearInterval(m, m.pollingInterval) EXCEPT !.pollingInterval = 0]
  ELSE m

\* startPolling that does not cancel the session alive
startPolling_keepsOld(m, interval) ==
  LET b == addLog(m, StartMsg(interval))
  IN [setInterval(b) EXCEPT !.pollingInterval = b.nextTimer]

\* startPolling that also polls at once instead of waiting for the first tick
startPolling_pollsAtOnce(m, interval) ==
  LET a == stopPolling(m)
      b == addLog(a, StartMsg(interval))
      c == [setInterval(b) EXCEPT !.pollingInterval = b.nextTimer]
  IN [c EXCEPT !.nStatus = @ + 1,
               !.statusInFlight = @ \cup {[id |-> m.nStatus + 1, session |-> b.nextTimer]}]

startPolling(m, interval) ==
  LET a == stopPolling(m)
      b == addLog(a, StartMsg(interval))
  IN [setInterval(b) EXCEPT !.pollingInterval = b.nextTimer]

showToast(m, title) == [m EXCEPT !.toast = title]

\* the assignments both catch blocks make to robotState
MarkFailed(m, text) ==
  [m EXCEPT !.robotState.connected = FALSE,
            !.robotState.errorMessage = Some(text),
            !.robotState.data = FailureData]

\* success assignments that copy the status fields into the data at hand and
\* keep its mode
MarkConnected_merges(m, snapshot) ==
  [m EXCEPT !.robotState.connected = TRUE,
            !.robotState.errorMessage = None,
            !.robotState.data = [@ EXCEPT !.run_status = snapshot.run_status,
                                          !.alarm_status = snapshot.alarm_status,
                                          !.alarm_code = snapshot.alarm_code,
                                          !.gv0_value = snapshot.gv0_value]]

\* the success assignments without the reset of errorMessage
MarkConnected_keepsError(m, snapshot) ==
  [m EXCEPT !.robotState.connected = TRUE,
            !.robotState.data = snapshot]

\* the assignments both success paths make to robotState
MarkConnected(m, snapshot) ==
  [m EXCEPT !.robotState.connected = TRUE,
            !.robotState.errorMessage = None,
            !.robotState.data = snapshot]

\* the results logged from the last to the first
RECURSIVE logResults_backwards(_, _)
logResults_backwards(m, results) ==
  IF results = << >> THEN m
  ELSE addLog(logResults_backwards(m, Tail(results)), ResultMsg(Head(results)))

\* data.detailed_results?.forEach(res => addLog(...)), in the order given
RECURSIVE logResults(_, _)
logResults(m, results) ==
  IF results = << >> THEN m
  ELSE logResults(addLog(m, ResultMsg(Head(results))), Tail(results))

\* ------------------------------------------------------- handleSendCommand
\* handleSendCommand that shows the connecting placeholder while it waits
sendCommand_resetsData(m, command) ==
  IF Trim(command) = << >>
  THEN showToast(m, "error: the command must not be empty")
  ELSE LET a == [m EXCEPT !.isLoading = TRUE, !.robotState.data = ConnectingData]
           b == addLog(a, BatchMsg(command))
           c == stopPolling(b)
       IN [c EXCEPT !.nCommands = @ + 1, !.cmdInFlight = @ \cup {m.nCommands + 1}]

\* handleSendCommand that leaves the running session alone
sendCommand_keepsPolling(m, command) ==
  IF Trim(command) = << >>
  THEN showToast(m, "error: the command must not be empty")
  ELSE LET a == [m EXCEPT !.isLoading = TRUE]
           b == addLog(a, BatchMsg(command))
       IN [b EXCEPT !.nCommands = @ + 1, !.cmdInFlight = @ \cup {m.nCommands + 1}]

\* handleSendCommand that tests the command without trimming it
sendCommand_noTrim(m, command) ==
  IF command = << >>
  THEN showToast(m, "error: the command must not be empty")
  ELSE LET a == [m EXCEPT !.isLoading = TRUE]
           b == addLog(a, BatchMsg(command))
           c == stopPolling(b)
       IN [c EXCEPT !.nCommands = @ + 1, !.cmdInFlight = @ \cup {m.nCommands + 1}]

\* the call, up to the await of fetch
sendCommand(m, command) ==
  IF Trim(command) = << >>
  THEN showToast(m, "error: the command must not be empty")
  ELSE LET a == [m EXCEPT !.isLoading = TRUE]
           b == addLog(a, BatchMsg(command))
           c == stopPolling(b)
       IN [c EXCEPT !.nCommands = @ + 1, !.cmdInFlight = @ \cup {m.nCommands + 1}]

\* a try block that also throws on a body whose status is not "success"
commandThrows_onErrorStatus(r) ==
  IF r.net # "json" THEN Some(r.error)
  ELSE IF ~r.ok \/ r.status # "success"
  THEN Some(OptOrElse(r.message, "unknown server error"))
  ELSE None

\* the message of the error the try block throws on reply r, if it throws
commandThrows(r) ==
  IF r.net # "json" THEN Some(r.error)
  ELSE IF ~r.ok THEN Some(OptOrElse(r.message, "unknown server error"))
  ELSE None

\* a try block that applies the snapshot of a successful body only
commandSucceeds_snapshotOnSuccess(m, r) ==
  LET a == IF r.detailed_results = None THEN m
           ELSE logResults(m, r.detailed_results[1])
      b == IF r.robot_status # None /\ r.status = "success"
           THEN MarkConnected(a, r.robot_status[1]) ELSE a
  IN IF r.status = "success" /\ r.motion_started
     THEN startPolling(showToast(b, "success: motion started, polling"), DefaultInterval)
     ELSE IF r.status = "error"
     THEN showToast(b, "command error")
     ELSE showToast(b, "done: executed, no motion started")

\* a try block that starts polling whenever motion_started is set
commandSucceeds_ignoresStatus(m, r) ==
  LET a == IF r.detailed_results = None THEN m
           ELSE logResults(m, r.detailed_results[1])
      b == IF r.robot_status # None THEN MarkConnected(a, r.robot_status[1]) ELSE a
  IN IF r.motion_started
     THEN startPolling(showToast(b, "success: motion started, polling"), DefaultInterval)
     ELSE IF r.status = "error"
     THEN showToast(b, "command error")
     ELSE showToast(b, "done: executed, no motion started")

\* the try block on a reply it does not throw on
commandSucceeds(m, r) ==
  LET a == IF r.detailed_results = None THEN m
           ELSE logResults(m, r.detailed_results[1])
      b == IF r.robot_status # None THEN MarkConnected(a, r.robot_status[1]) ELSE a
  IN IF r.status = "success" /\ r.motion_started
     THEN startPolling(showToast(b, "success: motion started, polling"), DefaultInterval)
     ELSE IF r.status = "error"
     THEN showToast(b, "command error")
     ELSE showToast(b, "done: executed, no motion started")

\* a catch block that leaves connected as it was
commandFails_keepsConnected(m, error) ==
  LET errorMessage == OrElse(error, "network or server connection failed")
      a == showToast(addLog(m, DispatchErrorMsg(errorMessage)), "request failed")
  IN [a EXCEPT !.robotState.errorMessage = Some(errorMessage),
               !.robotState.data = FailureData]

\* the catch block
commandFails(m, error) ==
  LET errorMessage == OrElse(error, "network or server connection failed")
  IN MarkFailed(showToast(addLog(m, DispatchErrorMsg(errorMessage)), "request failed"),
                errorMessage)

\* the rest of the call with loading cleared at the end of the try block only
commandReply_clearsInTry(m, req, r) ==
  LET a == [m EXCEPT !.cmdInFlight = @ \ {req}]
  IN IF commandThrows(r) = None
     THEN [commandSucceeds(a, r) EXCEPT !.isLoading = FALSE]
     ELSE commandFails(a, commandThrows(r)[1])

\* the rest of the call, from the reply on, with the finally block
commandReply(m, req, r) ==
  LET a == [m EXCEPT !.cmdInFlight = @ \ {req}]
      b == IF commandThrows(r) = None THEN commandSucceeds(a, r)
           ELSE commandFails(a, commandThrows(r)[1])
  IN [b EXCEPT !.isLoading = FALSE]

\* --------------------------------------------------------- pollRobotStatus
\* a call that shows loading for every query
pollBegin_alwaysLoads(m, session) ==
  [m EXCEPT !.isLoading = TRUE,
            !.nStatus = @ + 1,
            !.statusInFlight = @ \cup {[id |-> m.nStatus + 1, session |-> session]}]

\* the call, up to the await of fetch; session is the timer whose tick made
\* the call, 0 for the call of onMounted
pollBegin(m, session) ==
  LET a == IF m.robotState.isLoading THEN [m EXCEPT !.isLoading = TRUE] ELSE m
  IN [a EXCEPT !.nStatus = @ + 1,
               !.statusInFlight = @ \cup {[id |-> m.nStatus + 1, session |-> session]}]

\* the message of the error the try block throws on reply r, if it throws;
\* reading run_status of a missing robot_status is a TypeError
statusThrows(r) ==
  IF r.net # "json" THEN Some(r.error)
  ELSE IF ~r.ok THEN Some(OptOrElse(r.message, HttpErrorText(r.code)))
  ELSE IF r.status = "success"
  THEN IF r.robot_status = None
       THEN Some("Cannot read properties of undefined (reading 'run_status')")
       ELSE None
  ELSE Some(OptOrElse(r.message, "failed to get the status"))

\* a stop condition that never holds
stopCondition_never(snapshot) == FALSE

\* the stop condition of the success path
stopCondition(snapshot) ==
  snapshot.run_status = StoppedText /\ snapshot.alarm_code = Some(0)

\* a try block that starts the polling again when the robot is still moving
statusSucceeds_resumes(m, r) ==
  LET a == MarkConnected(m, r.robot_status[1])
  IN IF stopCondition(r.robot_status[1])
     THEN addLog(stopPolling(a), CompletionMsg)
     ELSE IF a.pollingInterval = 0 THEN startPolling(a, DefaultInterval) ELSE a

\* the try block on a reply it does not throw on
statusSucceeds(m, r) ==
  LET a == MarkConnected(m, r.robot_status[1])
  IN IF stopCondition(r.robot_status[1])
     THEN addLog(stopPolling(a), CompletionMsg)
     ELSE a

\* a catch block that starts the polling again
statusFails_restartsPolling(m, error) ==
  LET a == addLog(m, PollErrorMsg(error))
      b == MarkFailed(a, OrElse(error, "cannot connect to the backend service."))
  IN startPolling(b, DefaultInterval)

\* a catch block that does not stop the polling
statusFails_keepsPolling(m, error) ==
  LET a == addLog(m, PollErrorMsg(error))
  IN MarkFailed(a, OrElse(error, "cannot connect to the backend service."))

\* the catch block (what the try block wrote before a TypeError is overwritten here)
statusFails(m, error) ==
  LET a == addLog(m, PollErrorMsg(error))
      b == MarkFailed(a, OrElse(error, "cannot connect to the backend service."))
  IN stopPolling(b)

\* the rest of the call with the loading flags cleared at the end of the try
\* block only
statusReply_clearsInTry(m, q, r) ==
  LET a == [m EXCEPT !.statusInFlight = @ \ {q}]
  IN IF statusThrows(r) = None
     THEN [statusSucceeds(a, r) EXCEPT !.robotState.isLoading = FALSE, !.isLoading = FALSE]
     ELSE statusFails(a, statusThrows(r)[1])

\* the rest of the call, from the reply on, with the finally block
statusReply(m, q, r) ==
  LET a == [m EXCEPT !.statusInFlight = @ \ {q}]
      b == IF statusThrows(r) = None THEN statusSucceeds(a, r)
           ELSE statusFails(a, statusThrows(r)[1])
  IN [b EXCEPT !.robotState.isLoading = FALSE, !.isLoading = FALSE]

\* --------------------------------------------------------------- lifecycle
mounted(m) ==
  LET a == addLog(m, WelcomeMsg)
      b == [a EXCEPT !.robotState.isLoading = TRUE]
  IN pollBegin(b, 0)

unmounted(m) == stopPolling(m)

\* ------------------------------------------------------------ status panel
\* a status panel that shows the whole log
shownLogs_all == logMessages

\* Array.prototype.slice(start, end) for 0 <= start <= end
slice(s, start, end) ==
  SubSeq(s, start + 1, IF end < Len(s) THEN end ELSE Len(s))

\* the entries the v-for of the status panel renders
shownLogs == slice(logMessages, 0, LogLimit)

\* ------------------------------------------------------------------ actions
Init ==
  /\ robotState = [connected |-> FALSE, isLoading |-> TRUE, errorMessage |-> None,
                   data |-> ConnectingData]
  /\ logMessages = << >>
  /\ isLoading = FALSE
  /\ pollingInterval = 0
  /\ timers = {}
  /\ nextTimer = 1
  /\ toast = ""
  /\ cmdInFlight = {}
  /\ statusInFlight = {}
  /\ nCommands = 0
  /\ nStatus = 0
  /\ phase = "setup"
  /\ budget = MaxRequests
  /\ last = [kind |-> "init", command |-> << >>, req |-> 0, session |-> 0,
             reply |-> NoReply, alive |-> {}]

\* onMounted
Mount ==
  /\ phase = "setup"
  /\ Becomes(mounted(Cur))
  /\ phase' = "mounted"
  /\ last' = Event("mount", << >>, nStatus + 1, 0, NoReply)

\* the send button of the command panel, disabled while isLoading
SubmitCommand(text) ==
  /\ phase = "mounted"
  /\ ~isLoading
  /\ Trim(text) # << >> => nCommands + nStatus < budget
  /\ Becomes(sendCommand(Cur, text))
  /\ last' = Event("send", text, nCommands', 0, NoReply)
  /\ UNCHANGED phase

\* a preset button of the command panel, never disabled
SendPresetCommand(command) ==
  /\ phase = "mounted"
  /\ nCommands + nStatus < budget
  /\ Becomes(sendCommand(Cur, command))
  /\ last' = Event("send", command, nCommands', 0, NoReply)
  /\ UNCHANGED phase

\* the reply to a command request arrives
CommandReply(req, r) ==
  /\ req \in cmdInFlight
  /\ Becomes(commandReply(Cur, req, r))
  /\ last' = Event("commandReply", << >>, req, 0, r)
  /\ UNCHANGED phase

\* an interval timer fires
Tick(t) ==
  /\ t \in timers
  /\ nCommands + nStatus < budget
  /\ Becomes(pollBegin(Cur, t))
  /\ last' = Event("tick", << >>, nStatus + 1, t, NoReply)
  /\ UNCHANGED phase

\* the reply to a status query arrives
StatusReply(q, r) ==
  /\ q \in statusInFlight
  /\ Becomes(statusReply(Cur, q, r))
  /\ last' = Event("statusReply", << >>, q.id, q.session, r)
  /\ UNCHANGED phase

\* onUnmounted
Unmount ==
  /\ phase = "mounted"
  /\ Becomes(unmounted(Cur))
  /\ phase' = "unmounted"
  /\ last' = Event("unmount", << >>, 0, 0, NoReply)

Next ==
  \/ Mount
  \/ \E text \in Texts : SubmitCommand(text)
  \/ \E command \in Presets : SendPresetCommand(command)
  \/ \E req \in cmdInFlight, r \in CommandReplies : CommandReply(req, r)
  \/ \E t \in timers : Tick(t)
  \/ \E q \in statusInFlight, r \in StatusReplies : StatusReply(q, r)
  \/ Unmount

Spec == Init /\ [][Next]_vars

\* The page after onMounted has run and its status query has been answered
\* with the snapshot of a robot in motion; MaxRequests further requests follow.
InitMounted ==
  /\ robotState = [connected |-> TRUE, isLoading |-> FALSE, errorMessage |-> None,
                   data |-> Running]
  /\ logMessages = <<TimeTag \o WelcomeMsg>>
  /\ isLoading = FALSE
  /\ pollingInterval = 0
  /\ timers = {}
  /\ nextTimer = 1
  /\ toast = ""
  /\ cmdInFlight = {}
  /\ statusInFlight = {}
  /\ nCommands = 0
  /\ nStatus = 1
  /\ phase = "mounted"
  /\ budget = MaxRequests + 1
  /\ last = [kind |-> "statusReply", command |-> << >>, req |-> 1, session |-> 0,
             reply |-> Body("success", None, FALSE, Some(Running), None),
             alive |-> {}]

NextMounted ==
  \/ \E text \in Texts : SubmitCommand(text)
  \/ \E command \in Presets : SendPresetCommand(command)
  \/ \E req \in cmdInFlight, r \in CommandReplies : CommandReply(req, r)
  \/ \E t \in timers : Tick(t)
  \/ \E q \in statusInFlight, r \in StatusReplies : StatusReply(q, r)

SpecMounted == InitMounted /\ [][NextMounted]_vars

\* The operator presses the stop button again and again, each time after the
\* failure of the press before, while the backend cannot be reached: the run
\* in which the log outgrows what the status panel shows.
InitLog ==
  /\ robotState = [connected |-> TRUE, isLoading |-> FALSE, errorMessage |-> None,
                   data |-> Running]
  /\ logMessages = <<TimeTag \o WelcomeMsg>>
  /\ isLoading = FALSE
  /\ pollingInterval = 0
  /\ timers = {}
  /\ nextTimer = 1
  /\ toast = ""
  /\ cmdInFlight = {}
  /\ statusInFlight = {}
  /\ nCommands = 0
  /\ nStatus = 1
  /\ phase = "mounted"
  /\ budget = MaxPresses + 1
  /\ last = [kind |-> "statusReply", command |-> << >>, req |-> 1, session |-> 0,
             reply |-> Body("success", None, FALSE, Some(Running), None),
             alive |-> {}]

NextLog ==
  \/ cmdInFlight = {} /\ SendPresetCommand(<<"STOP_MOVE">>)
  \/ \E req \in cmdInFlight : CommandReply(req, NetworkError)

SpecLog == InitLog /\ [][NextLog]_vars

\* Every request that was sent is answered in the end: fetch settles, with a
\* reply or with a rejection.
AnswerCommand == \E req \in cmdInFlight, r \in CommandReplies : CommandReply(req, r)
AnswerStatus == \E q \in statusInFlight, r \in StatusReplies : StatusReply(q, r)
FairSpec == Spec /\ WF_vars(AnswerCommand) /\ WF_vars(AnswerStatus)

\* ================================================================== claims
\* what a reply is, read off the reply alone
HttpOk(r) == r.net = "json" /\ r.ok
PollSuccess(r) == HttpOk(r) /\ r.status = "success" /\ r.robot_status # None
MeetsStop(r) ==
  /\ PollSuccess(r)
  /\ r.robot_status[1].run_status = "stopped"
  /\ r.robot_status[1].alarm_code = <<0>>
StartsMotion(r) == HttpOk(r) /\ r.status = "success" /\ r.motion_started
AllWhitespace(s) == \A i \in 1..Len(s) : s[i] \in {" ", "\t", "\n"}
ValidationToast == "error: the command must not be empty"

\* C1: at most one interval timer is alive in every reachable state, and it is
\* the one the handle names; a step that creates a timer while one is alive
\* (startPolling during a session) ends with the new timer as the only one.
C1_AtMostOneSession ==
  /\ [](Cardinality(timers) <= 1 /\ timers \subseteq {pollingInterval})
  /\ [][(timers # {} /\ timers' \ timers # {})
          => (Cardinality(timers') = 1 /\ timers' \cap timers = {}
              /\ timers' = {pollingInterval'})]_vars

\* a command reply started a session while another session was alive
C1_Witness ==
  /\ last.kind = "commandReply"
  /\ last.alive # {}
  /\ timers # {}
  /\ timers \cap last.alive = {}

\* C2: a submission of an empty or whitespace-only command sends no request and
\* changes nothing but the notification: loading, the connection state, the log
\* and the session (handle and timer) stay as they were.
C2_EmptyCommandRejected ==
  [][(last'.kind = "send" /\ AllWhitespace(last'.command))
       => (/\ UNCHANGED <<robotState, logMessages, isLoading, pollingInterval, timers,
                          nextTimer, cmdInFlight, statusInFlight, nCommands, nStatus>>
           /\ toast' = ValidationToast)]_vars

\* a whitespace-only command was rejected while a session was running
C2_Witness ==
  /\ last.kind = "send"
  /\ last.command = <<" ", "\n">>
  /\ toast = ValidationToast
  /\ pollingInterval # 0
  /\ pollingInterval \in timers

\* C3: handling a successful status reply that meets the stop condition leaves
\* no session (no handle, no timer alive), and no status query is sent while
\* there is no session: none until a later startPolling.
C3_StopConditionHalts ==
  [][/\ (last'.kind = "statusReply" /\ MeetsStop(last'.reply))
          => (pollingInterval' = 0 /\ timers' = {})
     /\ (pollingInterval = 0 /\ phase # "setup") => nStatus' = nStatus]_vars

\* the reply to a tick met the stop condition and ended the session that sent it
C3_Witness ==
  /\ last.kind = "statusReply"
  /\ MeetsStop(last.reply)
  /\ last.session \in last.alive
  /\ pollingInterval = 0

\* the data a failed request leaves: three fields say "failed", gv0_value says
\* 'N/A' and there is no alarm_code
FailedPlaceholder ==
  [mode |-> "failed", run_status |-> "failed", alarm_status |-> "failed",
   alarm_code |-> << >>, gv0_value |-> [type |-> "string", num |-> 0, str |-> "N/A"]]

\* the step put exactly one entry, text, at the head of the log
LoggedOne(text) == logMessages' = <<"[time] " \o text>> \o logMessages

\* C4: handling a status reply that is not a success (network error, non-2xx,
\* a status other than "success", no robot_status) stops the session, sets
\* connected to false with an error message and the failure placeholder as
\* data, and puts exactly one failure entry in the log.
C4_PollFailureStops ==
  [][(last'.kind = "statusReply" /\ ~PollSuccess(last'.reply))
       => (/\ pollingInterval' = 0
           /\ timers' = {}
           /\ robotState'.connected = FALSE
           /\ robotState'.errorMessage # << >>
           /\ robotState'.data = FailedPlaceholder
           /\ LoggedOne("status polling request failed: "
                        \o robotState'.errorMessage[1]))]_vars

\* a tick of a running session was answered with a failure
C4_Witness ==
  /\ last.kind = "statusReply"
  /\ ~PollSuccess(last.reply)
  /\ last.session \in last.alive
  /\ ~robotState.connected

\* the log entry of a detailed_results entry
ResultLine(res) ==
  "[time] > \"" \o res.command \o "\": " \o res.message \o " (" \o res.status \o ")"

C6_StopIsIdempotent ==
  /\ [](/\ pollingInterval = 0 => stopPolling(Cur) = Cur
        /\ stopPolling(stopPolling(Cur)) = stopPolling(Cur))
  /\ [][(last'.kind = "unmount" /\ pollingInterval = 0)
          => UNCHANGED <<robotState, logMessages, isLoading, pollingInterval, timers,
                         nextTimer, toast, cmdInFlight, statusInFlight>>]_vars

\* stopPolling ran with no session alive
C6_Witness ==
  /\ last.kind = "unmount"
  /\ last.alive = {}
  /\ pollingInterval = 0
  /\ Len(logMessages) > 1

\* C7: in every reachable state, connected implies that errorMessage is null.
C7_ConnectedHasNoError ==
  robotState.connected => robotState.errorMessage = << >>

\* connected again after a request that failed
C7_Witness ==
  /\ robotState.connected
  /\ \E i \in 1..Len(logMessages) :
       logMessages[i] \in {"[time] error: Failed to fetch",
                           "[time] status polling request failed: Failed to fetch"}

\* C8: a dispatch creates a timer exactly when its reply is HTTP-successful
\* with status "success" and motion_started; sending the command creates none.
C8_PollingStartsIffMotion ==
  [][/\ last'.kind = "commandReply"
          => /\ (timers' \ timers # {}) <=> StartsMotion(last'.reply)
             /\ StartsMotion(last'.reply) => timers' = {pollingInterval'}
             /\ ~StartsMotion(last'.reply)
                  => (timers' = timers /\ pollingInterval' = pollingInterval)
     /\ last'.kind = "send" => timers' \ timers = {}]_vars

\* a reply with status "error" and motion_started was handled without a start
C8_Witness ==
  /\ last.kind = "commandReply"
  /\ HttpOk(last.reply)
  /\ last.reply.status = "error"
  /\ last.reply.motion_started
  /\ timers = {}

\* the message of a request that failed, read off the reply
FailureText(r) ==
  IF r.net # "json" THEN r.error
  ELSE IF r.message # << >> THEN r.message[1]
  ELSE "unknown server error"

\* what a failed dispatch does apart from the data it writes
DispatchFailureEffect(r) ==
  /\ robotState'.connected = FALSE
  /\ robotState'.errorMessage = <<FailureText(r)>>
  /\ LoggedOne("error: " \o FailureText(r))
  /\ timers' = timers
  /\ pollingInterval' = pollingInterval

\* C9 as stated: a dispatch that fails by network error, non-2xx result or
\* malformed body sets connected=false and errorMessage, logs one error entry,
\* starts no polling, and writes a placeholder whose every field says "failed".
C9_Original ==
  [][(last'.kind = "commandReply" /\ ~HttpOk(last'.reply))
       => (/\ DispatchFailureEffect(last'.reply)
           /\ robotState'.data.mode = "failed"
           /\ robotState'.data.run_status = "failed"
           /\ robotState'.data.alarm_status = "failed"
           /\ robotState'.data.gv0_value.str = "failed")]_vars

\* C9 (amended): the same, with the placeholder the code writes: mode,
\* run_status and alarm_status say "failed", gv0_value is 'N/A', no alarm_code.
C9_DispatchFailure ==
  [][(last'.kind = "commandReply" /\ ~HttpOk(last'.reply))
       => (/\ DispatchFailureEffect(last'.reply)
           /\ robotState'.data = FailedPlaceholder)]_vars

\* a dispatch failed on a non-2xx reply after the controller was connected
C9_Witness ==
  /\ last.kind = "commandReply"
  /\ last.reply.net = "json"
  /\ ~last.reply.ok
  /\ robotState.errorMessage = <<"backend down">>
  /\ \E i \in 1..Len(logMessages) :
       logMessages[i] = "[time] status polling started, interval: 1000ms"

\* a body with HTTP 2xx whose status is not "success"
ErrorBody(r) == HttpOk(r) /\ r.status # "success"

\* C10 as stated: a command reply with HTTP 2xx and a status other than
\* "success" takes the failure path, like a status reply of that kind.
C10_Original ==
  [][(last'.kind = "commandReply" /\ ErrorBody(last'.reply))
       => (/\ robotState'.connected = FALSE
           /\ robotState'.errorMessage # << >>
           /\ robotState'.data = FailedPlaceholder
           /\ Len(logMessages') = Len(logMessages) + 1)]_vars

\* C10 (amended): only a status reply is handled so.  A status reply with HTTP
\* 2xx and a status other than "success" takes the failure path of a non-2xx
\* reply.  A command reply of that kind does not: its results are logged and
\* nothing else, its snapshot, if any, is applied with connected=true and
\* errorMessage=null, without a snapshot the connection state stays as it was,
\* no session is started, and the operator is told of the command error
\* (status "error") or that the command ran without motion (any other status).
C10_ErrorStatusHandling ==
  [][/\ (last'.kind = "statusReply" /\ ErrorBody(last'.reply))
          => (/\ robotState'.connected = FALSE
              /\ robotState'.errorMessage # << >>
              /\ robotState'.data = FailedPlaceholder
              /\ pollingInterval' = 0
              /\ LoggedOne("status polling request failed: "
                           \o robotState'.errorMessage[1]))
     /\ (last'.kind = "commandReply" /\ ErrorBody(last'.reply))
          => LET r == last'.reply
                 n == IF r.detailed_results = << >> THEN 0 ELSE Len(r.detailed_results[1])
             IN /\ IF r.robot_status # << >>
                   THEN /\ robotState'.connected
                        /\ robotState'.errorMessage = << >>
                        /\ robotState'.data = r.robot_status[1]
                   ELSE robotState' = robotState
                /\ Len(logMessages') = Len(logMessages) + n
                /\ \A i \in 1..Len(logMessages') :
                     logMessages'[i] # "[time] error: " \o FailureText(r)
                /\ timers' = timers
                /\ pollingInterval' = pollingInterval
                /\ toast' = IF r.status = "error" THEN "command error"
                            ELSE "done: executed, no motion started"]_vars

\* a command reply with status "error" and a snapshot left the controller connected
C10_Witness ==
  /\ last.kind = "commandReply"
  /\ ErrorBody(last.reply)
  /\ last.reply.robot_status # << >>
  /\ robotState.connected
  /\ robotState.data = last.reply.robot_status[1]

\* C11: a command reply with HTTP 2xx that carries a robot_status snapshot
\* leaves data equal to that snapshot, connected=true and errorMessage=null,
\* whatever its status field says; one without a snapshot leaves connected,
\* errorMessage and data as they were, and so does the sending half of the
\* dispatch.
C11_SnapshotApplied ==
  [][/\ (last'.kind = "commandReply" /\ HttpOk(last'.reply))
          => IF last'.reply.robot_status # << >>
             THEN /\ robotState'.data = last'.reply.robot_status[1]
                  /\ robotState'.connected = TRUE
                  /\ robotState'.errorMessage = << >>
             ELSE /\ robotState'.data = robotState.data
                  /\ robotState'.connected = robotState.connected
                  /\ robotState'.errorMessage = robotState.errorMessage
     /\ last'.kind = "send"
          => /\ robotState'.data = robotState.data
             /\ robotState'.connected = robotState.connected
             /\ robotState'.errorMessage = robotState.errorMessage]_vars

\* a command reply with a status other than "success" brought a snapshot that
\* replaced the failure placeholder and cleared the error of a failed poll
C11_Witness ==
  /\ last.kind = "commandReply"
  /\ HttpOk(last.reply)
  /\ last.reply.status # "success"
  /\ last.reply.robot_status # << >>
  /\ last.alive = {}
  /\ robotState.data = last.reply.robot_status[1]
  /\ robotState.errorMessage = << >>
  /\ \E i \in 1..Len(logMessages) :
       logMessages[i] = "[time] status polling request failed: Failed to fetch"

\* C12: a dispatch of a non-empty command sets loading to true before its
\* request is sent, and the call ends with loading false whichever way it ends:
\* a reply that starts motion, one that does not, a body with status "error", a
\* non-2xx reply, an unparsable body or a network failure.
C12_LoadingCleared ==
  [][/\ (last'.kind = "send" /\ ~AllWhitespace(last'.command))
          => (isLoading' = TRUE /\ last'.req \in cmdInFlight')
     /\ last'.kind = "commandReply"
          => (isLoading' = FALSE /\ last'.req \notin cmdInFlight')]_vars

\* a dispatch whose reply was not JSON ended with loading false
C12_Witness ==
  /\ last.kind = "commandReply"
  /\ last.reply.net = "badjson"
  /\ isLoading = FALSE
  /\ toast = "request failed"

\* C13: a status reply that arrives when the session whose tick sent the query
\* is no longer alive (it was stopped, or a later session took its place) is
\* discarded: connected, errorMessage, data, loading and the log stay as they
\* were.
C13_StaleReplyDiscarded ==
  [][(/\ last'.kind = "statusReply"
      /\ last'.session # 0
      /\ last'.session \notin timers)
       => (/\ robotState'.connected = robotState.connected
           /\ robotState'.errorMessage = robotState.errorMessage
           /\ robotState'.data = robotState.data
           /\ isLoading' = isLoading
           /\ logMessages' = logMessages)]_vars

\* the batch entries of the commands the operator can send
BatchLines ==
  {"[time] sending command batch:\n\"- MOVE J1 30\n- SET_SPEED 50\"",
   "[time] sending command batch:\n\"- STOP_MOVE\""}

\* C14: a dispatch of a non-empty command, before its request is in flight,
\* has set loading to true, stopped the session that was alive and put exactly
\* one batch entry in the log; it sends exactly one command request, and no
\* other step sends one; a new session is started only by the handling of the
\* reply, after the results were logged (the start entry lies above them) and
\* the snapshot was applied.
C14_DispatchOrder ==
  [][/\ (last'.kind = "send" /\ ~AllWhitespace(last'.command))
          => (/\ isLoading' = TRUE
              /\ timers' = {}
              /\ pollingInterval' = 0
              /\ Len(logMessages') = Len(logMessages) + 1
              /\ Tail(logMessages') = logMessages
              /\ Head(logMessages') \in BatchLines
              /\ nCommands' = nCommands + 1
              /\ cmdInFlight' = cmdInFlight \cup {nCommands'}
              /\ nCommands' \notin cmdInFlight
              /\ nStatus' = nStatus)
     /\ nCommands' # nCommands => last'.kind = "send"
     /\ last'.kind = "commandReply"
          => (/\ cmdInFlight' = cmdInFlight \ {last'.req}
              /\ nStatus' = nStatus)
     /\ (timers' \ timers # {})
          => LET r == last'.reply
             IN /\ last'.kind = "commandReply"
                /\ Head(logMessages') = "[time] status polling started, interval: 1000ms"
                /\ r.detailed_results # << >>
                     => logMessages'[2]
                          = ResultLine(r.detailed_results[1][Len(r.detailed_results[1])])
                /\ r.robot_status # << >> => robotState'.data = r.robot_status[1]]_vars

\* a dispatch stopped the session that was alive and its request is in flight
C14_Witness ==
  /\ last.kind = "send"
  /\ last.alive # {}
  /\ timers = {}
  /\ pollingInterval = 0
  /\ isLoading
  /\ cmdInFlight = {last.req}
  /\ Head(logMessages) \in BatchLines

\* C15 as stated: every status query is sent by the tick of a session that is
\* alive at that moment; none is sent while no session is alive, not even when
\* the controller is initialized.
C15_Original ==
  [][nStatus' # nStatus
       => (last'.kind = "tick" /\ last'.session \in timers)]_vars

\* C15 (amended): onMounted sends one status query, the first of the run, with
\* no session alive.  Every other status query is sent by the tick of the one
\* session alive at that moment, the one the handle names; no step sends more
\* than one.
C15_QueriesFromTicks ==
  [][nStatus' # nStatus
       => /\ nStatus' = nStatus + 1
          /\ statusInFlight' = statusInFlight
               \cup {[id |-> nStatus', session |-> last'.session]}
          /\ \/ /\ last'.kind = "mount"
                /\ nStatus = 0
                /\ timers = {}
                /\ last'.session = 0
             \/ /\ last'.kind = "tick"
                /\ timers = {last'.session}
                /\ pollingInterval = last'.session]_vars

\* the tick of the session alive sent the second status query of the run
C15_Witness ==
  /\ last.kind = "tick"
  /\ last.alive = {last.session}
  /\ nStatus = 2
  /\ [id |-> 2, session |-> last.session] \in statusInFlight

\* C16 as stated, for the first tick of a session that was started in the step
\* before: the tick sets loading to true.
C16_Original ==
  [][(/\ last.kind = "commandReply"
      /\ StartsMotion(last.reply)
      /\ last'.kind = "tick"
      /\ last'.session = pollingInterval)
       => isLoading' = TRUE]_vars

\* C16 (amended): a status query sets loading to true only while the flag
\* robotState.isLoading of the initial load is set, which it is from onMounted
\* until the first status reply is handled and never again.  The query of
\* onMounted does so; a tick does so only if it fires before that first reply,
\* and otherwise leaves loading as it is.  Every status reply that is handled,
\* whichever query it answers, sets loading and the flag to false.
C16_LoadingOfPolls ==
  [][/\ last'.kind = "mount" => (isLoading' = TRUE /\ robotState'.isLoading = TRUE)
     /\ last'.kind = "tick"
          => (/\ isLoading' = IF robotState.isLoading THEN TRUE ELSE isLoading
              /\ robotState'.isLoading = robotState.isLoading)
     /\ last'.kind = "statusReply"
          => (isLoading' = FALSE /\ robotState'.isLoading = FALSE)
     /\ (phase # "setup" /\ ~robotState.isLoading) => ~robotState'.isLoading]_vars

\* the first tick of a session, after the initial load, left loading false
\* while its query is in flight
C16_Witness ==
  /\ last.kind = "tick"
  /\ last.alive = {last.session}
  /\ [id |-> last.req, session |-> last.session] \in statusInFlight
  /\ Cardinality(statusInFlight) = 1
  /\ cmdInFlight = {}
  /\ ~isLoading
  /\ ~robotState.isLoading

\* C17: when the reply to a tick of the session alive meets the stop condition
\* the session ends with one completion entry in the log, and a reply that
\* arrives next for another tick of that session, in flight when it ended,
\* changes neither connected, errorMessage, data nor the log: the completion
\* entry stays the only one and the connection state waits for the next
\* dispatch.
C17_CompletionIsFinal ==
  [][/\ (/\ last'.kind = "statusReply"
         /\ MeetsStop(last'.reply)
         /\ last'.session \in timers)
          => (/\ timers' = {}
              /\ LoggedOne("robot motion finished, status polling stopped automatically."))
     /\ (/\ last.kind = "statusReply"
         /\ MeetsStop(last.reply)
         /\ last.session \in last.alive
         /\ last'.kind = "statusReply"
         /\ last'.session = last.session)
          => (/\ robotState'.connected = robotState.connected
              /\ robotState'.errorMessage = robotState.errorMessage
              /\ robotState'.data = robotState.data
              /\ logMessages' = logMessages)]_vars

\* a reply that takes the catch block of its handler
FailedReply(e) ==
  \/ e.kind = "statusReply" /\ ~PollSuccess(e.reply)
  \/ e.kind = "commandReply" /\ ~HttpOk(e.reply)

\* C18 as stated, for the step that follows the handling of a failure: unless
\* that step is a new dispatch of the operator it sends neither a status query
\* nor a command request.
C18_Original ==
  [][(FailedReply(last) /\ last'.kind # "send")
       => (nStatus' = nStatus /\ nCommands' = nCommands)]_vars

\* C18 (amended): the handling of a failed status reply or of a failed dispatch
\* sends no request and starts no session; a failed status reply leaves no
\* session alive, a failed dispatch leaves the sessions as they are.  A command
\* request is sent by a dispatch of the operator only, a session is started
\* only by a command reply that reports motion, and a status query is sent
\* only by onMounted or by the tick of a session alive.
C18_NoAutomaticRetry ==
  [][/\ FailedReply(last')
          => (/\ nStatus' = nStatus
              /\ nCommands' = nCommands
              /\ statusInFlight' \subseteq statusInFlight
              /\ cmdInFlight' \subseteq cmdInFlight
              /\ IF last'.kind = "statusReply"
                 THEN timers' = {} /\ pollingInterval' = 0
                 ELSE timers' = timers /\ pollingInterval' = pollingInterval)
     /\ nCommands' # nCommands => last'.kind = "send"
     /\ (timers' \ timers # {})
          => (last'.kind = "commandReply" /\ StartsMotion(last'.reply))
     /\ nStatus' # nStatus
          => \/ last'.kind = "mount"
             \/ last'.kind = "tick" /\ last'.session \in timers]_vars

\* a dispatch failed while the session that the reply of another dispatch had
\* started meanwhile is alive: its ticks go on
C18_Witness ==
  /\ last.kind = "commandReply"
  /\ ~HttpOk(last.reply)
  /\ last.alive # {}
  /\ timers = last.alive
  /\ ~robotState.connected
  /\ cmdInFlight = {}

\* C19: the log only grows, and only at its head: after every step the log of
\* before is the tail end of the log, entry for entry and in the same order,
\* below the entries the step put in; none is removed, changed or moved.
C19_LogAppendOnly ==
  [][/\ Len(logMessages') >= Len(logMessages)
     /\ SubSeq(logMessages', Len(logMessages') - Len(logMessages) + 1, Len(logMessages'))
          = logMessages]_vars

\* four handlers have logged: the welcome entry is the oldest, below the batch
\* entry, the result entries, the start entry and the completion entry
C19_Witness ==
  /\ Len(logMessages) >= 5
  /\ logMessages[Len(logMessages)] = "[time] welcome to the robot control system."
  /\ logMessages[Len(logMessages) - 1] \in BatchLines
  /\ logMessages[2] = "[time] status polling started, interval: 1000ms"
  /\ logMessages[1] = "[time] robot motion finished, status polling stopped automatically."

\* nothing is in flight and loading is false
Quiet == ~isLoading /\ cmdInFlight = {} /\ statusInFlight = {}

\* C20: when every request that was sent is answered in the end, the controller
\* comes again and again to a state with loading false and no request in
\* flight; whenever loading is true such a state follows, whatever failed.
C20_LoadingSettles ==
  /\ []<>Quiet
  /\ isLoading ~> Quiet

\* every request of the run failed, a dispatch among them, and the controller
\* is at rest with loading false
C20_Witness ==
  /\ Quiet
  /\ last.kind = "statusReply"
  /\ last.reply.net = "reject"
  /\ nCommands >= 1
  /\ ~robotState.connected
  /\ toast = "request failed"

\* C21: the status panel shows the first min(100, n) entries of the n entries
\* of the log, entry for entry in the order of the log, newest first, which are
\* the 100 put in last; the log itself is never cut.
C21_ShownLog ==
  /\ [](/\ Len(shownLogs) = (IF Len(logMessages) < 100 THEN Len(logMessages) ELSE 100)
        /\ \A i \in 1..Len(shownLogs) : shownLogs[i] = logMessages[i])
  /\ [][/\ Len(logMessages') >= Len(logMessages)
        /\ \A i \in 1..Len(logMessages) :
             logMessages'[Len(logMessages') - Len(logMessages) + i] = logMessages[i]]_vars

\* the log holds more than 100 entries, of which the panel shows the newest
\* 100 and not the welcome entry at the end
C21_Witness ==
  /\ Len(logMessages) > 100
  /\ Len(shownLogs) = 100
  /\ shownLogs[1] = logMessages[1]
  /\ shownLogs[100] = logMessages[100]
  /\ logMessages[Len(logMessages)] = "[time] welcome to the robot control system."

\* the state of the polling-session handle
Handle == IF pollingInterval = 0 THEN "IDLE" ELSE "RUNNING"

\* C22: the handle starts IDLE; it goes from IDLE to RUNNING only by a start;
\* it goes from RUNNING to IDLE only by the reply to a tick of the session that
\* meets the stop condition or fails, or by a stop from outside (a dispatch,
\* unmount); a successful reply to a tick of the session that does not meet the
\* stop condition leaves it RUNNING; no other event changes it.
C22_HandleRefinesMachine ==
  /\ Handle = "IDLE"
  /\ [][/\ (Handle = "IDLE" /\ Handle' = "RUNNING")
             => (last'.kind = "commandReply" /\ StartsMotion(last'.reply))
        /\ (Handle = "RUNNING" /\ Handle' = "IDLE")
             => \/ /\ last'.kind = "statusReply"
                   /\ last'.session = pollingInterval
                   /\ MeetsStop(last'.reply) \/ ~PollSuccess(last'.reply)
                \/ last'.kind = "send" /\ ~AllWhitespace(last'.command)
                \/ last'.kind = "unmount"
        /\ (/\ Handle = "RUNNING"
            /\ last'.kind = "statusReply"
            /\ last'.session = pollingInterval
            /\ PollSuccess(last'.reply)
            /\ ~MeetsStop(last'.reply))
             => Handle' = "RUNNING"]_vars

\* the start entry of startPolling with the default interval
StartLine == "[time] status polling started, interval: 1000ms"

\* C23: the step that starts a session cancels the session alive, puts exactly
\* one start entry that names the interval of 1000 ms in the log and creates
\* the new timer, all at once: the new timer is then the only one and the one
\* the handle names, a session alive always has its start entry in the log,
\* and a tick is always a tick of the session created last, never of one that
\* was replaced.
C23_StartOrder ==
  /\ [](timers # {} => \E i \in 1..Len(logMessages) : logMessages[i] = StartLine)
  /\ [][/\ (timers' \ timers # {})
             => (/\ timers' = {nextTimer}
                 /\ pollingInterval' = nextTimer
                 /\ nextTimer' = nextTimer + 1
                 /\ Head(logMessages') = StartLine
                 /\ \A i \in 2..(Len(logMessages') - Len(logMessages)) :
                      logMessages'[i] # StartLine)
        /\ last'.kind = "tick"
             => (last'.session = pollingInterval /\ last'.session = nextTimer - 1)]_vars

\* two dispatches overlapped: the reply of the second replaced the session the
\* reply of the first had started, and the new session has ticked
C23_Witness ==
  /\ last.kind = "tick"
  /\ last.session = 2
  /\ last.alive = {2}
  /\ Len(logMessages) >= 5
  /\ logMessages[Len(logMessages) - 1] \in BatchLines
  /\ logMessages[Len(logMessages) - 2] \in BatchLines
  /\ logMessages[1] = StartLine
  /\ \E i \in 2..Len(logMessages) : logMessages[i] = StartLine

\* the data of the robotState before any reply
ConnectingPlaceholder ==
  [mode |-> "connecting...", run_status |-> "connecting...",
   alarm_status |-> "connecting...", alarm_code |-> << >>,
   gv0_value |-> [type |-> "string", num |-> 0, str |-> "N/A"]]

\* connected, errorMessage and data of the robotState
Connection(rs) == <<rs.connected, rs.errorMessage, rs.data>>

\* C24: between handlers data is the connecting placeholder, the failure
\* placeholder or the whole robot_status of one reply, never fields of two;
\* connected, errorMessage and data go together: nothing yet (not connected, no
\* error, connecting placeholder), a failure (not connected, an error, failure
\* placeholder) or a snapshot (connected, no error, the snapshot); and a step
\* that changes any of them is the handling of one reply and writes all three
\* from that reply.
C24_DataWholesale ==
  /\ [](\/ /\ ~robotState.connected
           /\ robotState.errorMessage = << >>
           /\ robotState.data = ConnectingPlaceholder
        \/ /\ ~robotState.connected
           /\ robotState.errorMessage # << >>
           /\ robotState.data = FailedPlaceholder
        \/ /\ robotState.connected
           /\ robotState.errorMessage = << >>
           /\ robotState.data \in Snapshots)
  /\ [][Connection(robotState') # Connection(robotState)
          => /\ last'.kind \in {"commandReply", "statusReply"}
             /\ \/ /\ last'.reply.robot_status # << >>
                   /\ Connection(robotState') = <<TRUE, << >>, last'.reply.robot_status[1]>>
                \/ /\ robotState'.errorMessage # << >>
                   /\ Connection(robotState')
                        = <<FALSE, robotState'.errorMessage, FailedPlaceholder>>]_vars

\* after a failure the snapshot of a status reply replaced the failure
\* placeholder whole, alarm fields included
C24_Witness ==
  /\ last.kind = "statusReply"
  /\ PollSuccess(last.reply)
  /\ robotState.data = last.reply.robot_status[1]
  /\ robotState.data.alarm_status = "alarm"
  /\ robotState.data.mode = "auto"
  /\ robotState.connected
  /\ \E i \in 1..Len(logMessages) : logMessages[i] = "[time] error: Failed to fetch"

\* C25 as stated: over a step before and after which one and the same command
\* request is in flight, connected, errorMessage and data stay as they were.
C25_Original ==
  [][(cmdInFlight \cap cmdInFlight' # {})
       => Connection(robotState') = Connection(robotState)]_vars

\* C25 (amended): sending a dispatch leaves connected, errorMessage and data as
\* they were, and so does every step that handles no reply (a rejected empty
\* command, a tick, unmount); while a command request is in flight they change
\* only when a reply is handled, which need not be the reply to that request:
\* the reply to a status query or to another command request changes them too.
C25_PriorValuesKept ==
  [][/\ last'.kind \in {"send", "tick", "unmount"}
          => Connection(robotState') = Connection(robotState)
     /\ (cmdInFlight # {} /\ Connection(robotState') # Connection(robotState))
          => \/ last'.kind = "commandReply" /\ last'.req \in cmdInFlight
             \/ last'.kind = "statusReply"
                  /\ [id |-> last'.req, session |-> last'.session] \in statusInFlight]_vars

\* while a command request is in flight the reply to the status query of
\* onMounted replaced the connecting placeholder by a snapshot
C25_Witness ==
  /\ last.kind = "statusReply"
  /\ last.session = 0
  /\ PollSuccess(last.reply)
  /\ cmdInFlight # {}
  /\ robotState.connected
  /\ robotState.data = last.reply.robot_status[1]

\* C26 as stated: while a command request is in flight no session is alive.
C26_Original == cmdInFlight # {} => timers = {}

\* C26 (amended): sending a dispatch leaves no session alive, and while command
\* requests are in flight only the reply to one of them, reporting motion,
\* starts a session and only that session ticks.  A session is therefore alive
\* next to a request in flight only when two dispatches overlapped: the reply
\* to one started it after the other was sent.
C26_DispatchAndSession ==
  /\ []((cmdInFlight # {} /\ timers # {}) => nCommands >= 2)
  /\ [][/\ (last'.kind = "send" /\ ~AllWhitespace(last'.command)) => timers' = {}
        /\ (cmdInFlight # {} /\ timers' \ timers # {})
             => (/\ last'.kind = "commandReply"
                 /\ last'.req \in cmdInFlight
                 /\ StartsMotion(last'.reply))
        /\ (cmdInFlight # {} /\ nStatus' # nStatus)
             => (/\ last'.kind = "tick"
                 /\ timers = {last'.session}
                 /\ Cardinality(cmdInFlight) < nCommands)]_vars

\* of two dispatches in flight together one has been answered and has started
\* a session; the request of the other is still in flight
C26_Witness ==
  /\ last.kind = "commandReply"
  /\ StartsMotion(last.reply)
  /\ cmdInFlight # {}
  /\ timers = {pollingInterval}
  /\ pollingInterval # 0

\* C27: while a command request is in flight the loading flag of the command
\* panel is true; neither a status reply handled meanwhile nor the end of
\* another dispatch clears it.
C27_LoadingWhileDispatching == cmdInFlight # {} => isLoading

\* C28: a status reply stops the session alive only if it answers a query that
\* a tick of that session sent; the reply to a query of an earlier session or
\* of onMounted never stops a session started later.
C28_StoppedByOwnReply ==
  [][(last'.kind = "statusReply" /\ timers # {} /\ timers' = {})
       => last'.session \in timers]_vars

\* C29: once the page is unmounted no session is alive and none is created
\* later; a command reply that arrives after unmount leaves no timer running.
C29_NoSessionAfterUnmount == phase = "unmounted" => timers = {}

\* the completion entry of pollRobotStatus
CompletionLine == "[time] robot motion finished, status polling stopped automatically."

\* C30: the completion entry is put in the log only by the handling of a
\* status reply that stopped a session alive until then, never while no session
\* is alive, and so at most once for a session.
C30_CompletionOnlyOnStop ==
  [][(Len(logMessages') > Len(logMessages) /\ Head(logMessages') = CompletionLine)
       => (/\ last'.kind = "statusReply"
           /\ timers # {}
           /\ timers' = {})]_vars
====
